---- MODULE Spec2Model ----
(***************************************************************************)
(* Model of scripts/parse_bpf_h.py, the wrapper generator for libbpf.      *)
(*                                                                         *)
(* Two state machines are described:                                       *)
(*   Spec        the generator itself (main): the scan of the header, the  *)
(*               construction of ExportedFunction objects and the prints;  *)
(*   RuntimeSpec the C code the generator emits (INIT and the INVOKE       *)
(*               templates), executed by several threads.                  *)
(*                                                                         *)
(* Text is a sequence of one-character strings, so that find, split,       *)
(* slicing and lstrip are computed as Python computes them.                *)
(***************************************************************************)
EXTENDS Integers, Sequences, FiniteSets, TLC

\* ------------------------------------------------------------------------
\* Bounds
\* ------------------------------------------------------------------------
MaxLines == 3
NumThreads == 2
MaxCalls == 3

\* ------------------------------------------------------------------------
\* Characters and words
\* ------------------------------------------------------------------------
SP == <<" ">>
NL == <<"\n">>
Semi == <<";">>
LParen == <<"(">>
RParen == <<")">>
Comma == <<",">>
Star == "*"
Whitespace == {" ", "\n", "\t"}

Marker == <<"L", "I", "B", "B", "P", "F", "_", "A", "P", "I">>
W_int == <<"i", "n", "t">>
W_void == <<"v", "o", "i", "d">>
W_extern == <<"e", "x", "t", "e", "r", "n">>
W_T == <<"T">>
W_U == <<"U">>
W_star == <<"*">>
W_bpf_f == <<"b", "p", "f", "_", "f">>
W_bpf_g == <<"b", "p", "f", "_", "g">>
W_bpf_h == <<"b", "p", "f", "_", "h">>
W_bpf_k == <<"b", "p", "f", "_", "k">>
W_p == <<"p">>
W_x == <<"x">>
W_y == <<"y">>
W_a == <<"a">>
W_b == <<"b">>
W_v == <<"v">>
Empty == <<>>

\* ------------------------------------------------------------------------
\* Python string primitives
\* ------------------------------------------------------------------------

\* s.find(sub): lowest 0-based index of sub in s, -1 when absent
Find(s, sub) ==
    LET hits == {k \in 0..(Len(s) - Len(sub)) : SubSeq(s, k + 1, k + Len(sub)) = sub}
    IN IF hits = {} THEN -1 ELSE CHOOSE k \in hits : \A m \in hits : k <= m

\* truth value of a Python int in a condition
Truthy(n) == n # 0

\* s[a:b] with Python's treatment of negative and out-of-range indices
Slice(s, a, b) ==
    LET n == Len(s)
        lo == IF a < 0 THEN (IF a + n < 0 THEN 0 ELSE a + n) ELSE (IF a > n THEN n ELSE a)
        hi == IF b < 0 THEN (IF b + n < 0 THEN 0 ELSE b + n) ELSE (IF b > n THEN n ELSE b)
    IN IF lo < hi THEN SubSeq(s, lo + 1, hi) ELSE <<>>

RECURSIVE SplitAcc(_, _, _)
SplitAcc(s, cur, out) ==
    IF s = <<>> THEN (IF cur = <<>> THEN out ELSE Append(out, cur))
    ELSE IF Head(s) \in Whitespace
         THEN SplitAcc(Tail(s), <<>>, IF cur = <<>> THEN out ELSE Append(out, cur))
         ELSE SplitAcc(Tail(s), Append(cur, Head(s)), out)

\* s.split(): runs of whitespace separate the tokens, no empty tokens
Split(s) == SplitAcc(s, <<>>, <<>>)

RECURSIVE SplitOnAcc(_, _, _, _)
SplitOnAcc(s, c, cur, out) ==
    IF s = <<>> THEN Append(out, cur)
    ELSE IF Head(s) = c
         THEN SplitOnAcc(Tail(s), c, <<>>, Append(out, cur))
         ELSE SplitOnAcc(Tail(s), c, Append(cur, Head(s)), out)

\* s.split(c) for a one-character separator: empty pieces are kept
SplitOn(s, c) == SplitOnAcc(s, c, <<>>, <<>>)

RECURSIVE LStrip(_, _)
\* s.lstrip(c)
LStrip(s, c) ==
    IF s # <<>> /\ Head(s) = c THEN LStrip(Tail(s), c) ELSE s

RECURSIVE Join(_, _)
\* sep.join(parts)
Join(parts, sep) ==
    IF parts = <<>> THEN <<>>
    ELSE IF Len(parts) = 1 THEN parts[1]
    ELSE parts[1] \o sep \o Join(Tail(parts), sep)

\* seq[-1]
Last(seq) == seq[Len(seq)]

\* ------------------------------------------------------------------------
\* class ExportedFunction
\* ------------------------------------------------------------------------
LeftOf(func_def) == Find(func_def, LParen)
RightOf(func_def) == Find(func_def, RParen)

\* tokens = self.func_def[:left].split()
TokensOf(func_def) == Split(Slice(func_def, 0, LeftOf(func_def)))

\* self.func_args = self.func_def[left+1:right]
FuncArgsOf(func_def) == Slice(func_def, LeftOf(func_def) + 1, RightOf(func_def))

\* the pieces the loop of __init__ iterates over
PiecesOf(func_def) == SplitOn(FuncArgsOf(func_def), ",")

\* __init__ raises IndexError: tokens[-1] or token.split()[-1] of an empty list
Raises(func_def) ==
    \/ TokensOf(func_def) = <<>>
    \/ \E k \in 1..Len(PiecesOf(func_def)) : Split(PiecesOf(func_def)[k]) = <<>>

\* self.func_name = tokens[-1]
FuncName(tokens) == Last(tokens)

\* self.func_return = " ".join(tokens[1:-1])
FuncReturn(tokens) == Join(Slice(tokens, 1, -1), SP)

\* the same without the lstrip
ProcessTokenNoStrip(token) == Last(Split(token))

\* res.append(token.split()[-1].lstrip("*"))
ProcessToken(token) == LStrip(Last(Split(token)), Star)

\* the object __init__ builds (only when it does not raise)
ExportedFunction(func_def) ==
    LET tokens == TokensOf(func_def)
        pieces == PiecesOf(func_def)
        res == [k \in 1..Len(pieces) |-> ProcessToken(pieces[k])]
    IN [func_def |-> func_def,
        func_name |-> FuncName(tokens),
        func_return |-> FuncReturn(tokens),
        func_args |-> FuncArgsOf(func_def),
        res |-> res,
        processed_args |-> Join(res, Comma \o SP)]

\* dump_wrapper: the template chosen and the fields substituted into it
dump_wrapper(f) ==
    [template |-> IF f.func_return = W_void THEN "INVOKE_VOID_TEMPLATE"
                                           ELSE "INVOKE_NON_VOID_TEMPLATE",
     func_return |-> f.func_return,
     func_name |-> f.func_name,
     func_args |-> f.func_args,
     processed_args |-> f.processed_args]

\* dump_declaration
dump_declaration(f) ==
    [template |-> "DECLARE_TEMPLATE",
     func_return |-> f.func_return,
     func_name |-> f.func_name,
     func_args |-> f.func_args,
     processed_args |-> <<>>]

\* print(PREAMBLE), print(INIT): fixed text, nothing substituted
Fixed(template) ==
    [template |-> template, func_return |-> <<>>, func_name |-> <<>>,
     func_args |-> <<>>, processed_args |-> <<>>]

\* ------------------------------------------------------------------------
\* Inputs: header lines and exception lists
\* ------------------------------------------------------------------------

\* a parameter "pre... **id": type tokens, pointer markers, identifier
Param(pre, stars, id) == [pre |-> pre, stars |-> stars, id |-> id]

ParamText(p) ==
    (IF p.pre = <<>> THEN <<>> ELSE Join(p.pre, SP) \o SP)
        \o [k \in 1..p.stars |-> Star] \o p.id

\* declarations of the shape  LIBBPF_API RET NAME(P1, ..., Pn);
DeclForms ==
    { [ret |-> <<W_int>>, name |-> W_bpf_f,
       params |-> <<Param(<<W_int>>, 0, W_x)>>],
      [ret |-> <<W_T, W_star>>, name |-> W_p,
       params |-> <<Param(<<W_T>>, 0, W_a), Param(<<W_U>>, 2, W_b)>>],
      [ret |-> <<W_void>>, name |-> W_bpf_g,
       params |-> <<Param(<<>>, 0, W_void)>>] }

ParamListText(d) == Join([k \in 1..Len(d.params) |-> ParamText(d.params[k])], Comma \o SP)

DeclLine(d) ==
    Marker \o SP \o Join(d.ret, SP) \o SP \o d.name
        \o LParen \o ParamListText(d) \o RParen \o Semi

\* a marker line without terminator, a continuation line with one, an empty
\* parameter list, a declaration without parentheses, a blank line
L_open == Marker \o SP \o W_int
L_cont == W_bpf_k \o LParen \o W_int \o SP \o W_y \o RParen \o Semi
L_empty == Marker \o SP \o W_int \o SP \o W_bpf_h \o LParen \o RParen \o Semi
L_nopar == Marker \o SP \o W_extern \o SP \o W_int \o SP \o W_v \o Semi
L_blank == <<>>

LinePool == {DeclLine(d) : d \in DeclForms} \cup {L_open, L_cont, L_empty, L_nopar, L_blank}

Headers == UNION {[1..n -> LinePool] : n \in 0..MaxLines}

ExceptionLists == {<<>>, <<W_bpf_g>>, <<Marker>>, <<Empty>>, <<Marker, W_bpf_g>>}

\* ------------------------------------------------------------------------
\* State
\* ------------------------------------------------------------------------
VARIABLES
    header,      \* bpfh.read().splitlines()
    exceptions,  \* config["exceptions"]
    i,           \* index of the next line of the loop of main
    start,       \* main: start
    func_def,    \* main: func_def, the accumulator
    defs,        \* main: defs
    raws,        \* the texts handed to ExportedFunction(), with the line that ended each
    pc,          \* position of main
    j,           \* index of the next element of the two print loops
    output,      \* what has been printed, one element per print()
    init_done,   \* INIT: init_done
    default_rtld,\* INIT: default_rtld
    init_lock,   \* INIT: init_lock, 0 when free, else the owner
    real,        \* DECLARE_TEMPLATE: real_<name>, one per wrapper
    tpc,         \* position of each thread in the wrapper it runs
    cur,         \* the wrapper each thread runs
    calls,       \* number of wrapper calls started
    dlopens,     \* number of dlopen calls executed
    dlsyms,      \* number of dlsym calls executed, per name
    crashed      \* the process was killed by a call through a null pointer

genVars == <<header, exceptions, i, start, func_def, defs, raws, pc, j, output>>
rtVars == <<init_done, default_rtld, init_lock, real, tpc, cur, calls,
            dlopens, dlsyms, crashed>>
vars == <<genVars, rtVars>>

\* ------------------------------------------------------------------------
\* The generated runtime before any thread runs
\* ------------------------------------------------------------------------
Null == "NULL"
Handle == "handle"
Free == 0
Threads == 1..NumThreads
Wrappers == {"bpf_f", "bpf_g"}
Addr(w) == "&" \o w

RuntimeStart ==
    /\ init_done = FALSE
    /\ default_rtld = Null
    /\ init_lock = Free
    /\ real = [w \in Wrappers |-> Null]
    /\ tpc = [t \in Threads |-> "idle"]
    /\ cur = [t \in Threads |-> "bpf_f"]
    /\ calls = 0
    /\ dlopens = 0
    /\ dlsyms = [w \in Wrappers |-> 0]
    /\ crashed = FALSE

\* ------------------------------------------------------------------------
\* main
\* ------------------------------------------------------------------------

\* state of main when the loop over the lines is entered
GenStart ==
    /\ i = 1
    /\ start = FALSE
    /\ func_def = <<>>
    /\ defs = <<>>
    /\ raws = <<>>
    /\ pc = "scan"
    /\ j = 1
    /\ output = <<>>

Init ==
    /\ header \in Headers
    /\ exceptions \in ExceptionLists
    /\ GenStart
    /\ RuntimeStart

\* line.find("LIBBPF_API") != -1
HasMarker(line) == Find(line, Marker) # -1

\* line.find(";") != -1
HasTerminator(line) == Find(line, Semi) # -1

\* the loop over config["exceptions"]: some skip makes func_def.find(skip) true
Skipped(text, excs) == \E k \in 1..Len(excs) : Truthy(Find(text, excs[k]))

\* the same list with the new element put first
AppendDefFront(ds, d) == <<d>> \o ds

\* defs.append(...)
AppendDef(ds, d) == Append(ds, d)

\* one iteration of the loop over the lines
ReadLine ==
    /\ pc = "scan"
    /\ i <= Len(header)
    /\ LET line == header[i]
           start1 == start \/ HasMarker(line)
           acc == IF start1 THEN func_def \o line \o NL ELSE func_def
       IN IF HasTerminator(line) /\ start1
          THEN /\ start' = FALSE
               /\ func_def' = <<>>
               /\ IF Skipped(acc, exceptions)
                  THEN UNCHANGED <<defs, raws, pc>>
                  ELSE /\ raws' = Append(raws, [text |-> acc, line |-> i])
                       /\ IF Raises(acc)
                          THEN pc' = "crashed" /\ UNCHANGED defs
                          ELSE /\ defs' = AppendDef(defs, ExportedFunction(acc))
                               /\ UNCHANGED pc
          ELSE /\ start' = start1
               /\ func_def' = acc
               /\ UNCHANGED <<defs, raws, pc>>
    /\ i' = i + 1
    /\ UNCHANGED <<header, exceptions, j, output, rtVars>>

\* the loop is over: bpfh.close()
CloseHeader ==
    /\ pc = "scan"
    /\ i > Len(header)
    /\ pc' = "preamble"
    /\ UNCHANGED <<header, exceptions, i, start, func_def, defs, raws, j, output, rtVars>>

\* print(PREAMBLE)
PrintPreamble ==
    /\ pc = "preamble"
    /\ output' = Append(output, Fixed("PREAMBLE"))
    /\ pc' = "init"
    /\ UNCHANGED <<header, exceptions, i, start, func_def, defs, raws, j, rtVars>>

\* print(INIT), and the first loop is entered
PrintInit ==
    /\ pc = "init"
    /\ output' = Append(output, Fixed("INIT"))
    /\ pc' = IF defs = <<>> THEN "done" ELSE "declarations"
    /\ j' = 1
    /\ UNCHANGED <<header, exceptions, i, start, func_def, defs, raws, rtVars>>

\* one iteration of: for func_def in defs: print(func_def.dump_declaration())
PrintDeclaration ==
    /\ pc = "declarations"
    /\ output' = Append(output, dump_declaration(defs[j]))
    /\ IF j < Len(defs)
       THEN j' = j + 1 /\ UNCHANGED pc
       ELSE j' = 1 /\ pc' = "wrappers"
    /\ UNCHANGED <<header, exceptions, i, start, func_def, defs, raws, rtVars>>

\* one iteration of: for func_def in defs: print(func_def.dump_wrapper())
PrintWrapper ==
    /\ pc = "wrappers"
    /\ output' = Append(output, dump_wrapper(defs[j]))
    /\ IF j < Len(defs)
       THEN j' = j + 1 /\ UNCHANGED pc
       ELSE j' = 1 /\ pc' = "done"
    /\ UNCHANGED <<header, exceptions, i, start, func_def, defs, raws, rtVars>>

Next ==
    \/ ReadLine
    \/ CloseHeader
    \/ PrintPreamble
    \/ PrintInit
    \/ PrintDeclaration
    \/ PrintWrapper

Spec == Init /\ [][Next]_vars

\* ------------------------------------------------------------------------
\* The generated runtime: INIT and the INVOKE templates, run by threads
\* ------------------------------------------------------------------------

RuntimeInit ==
    /\ header = <<>>
    /\ exceptions = <<>>
    /\ GenStart
    /\ RuntimeStart

\* a thread enters a wrapper
Call(t, w) ==
    /\ ~crashed
    /\ tpc[t] = "idle"
    /\ calls < MaxCalls
    /\ calls' = calls + 1
    /\ cur' = [cur EXCEPT ![t] = w]
    /\ tpc' = [tpc EXCEPT ![t] = "lock"]
    /\ UNCHANGED <<genVars, init_done, default_rtld, init_lock, real, dlopens, dlsyms, crashed>>

\* pthread_mutex_lock(&init_lock)
Lock(t) ==
    /\ ~crashed
    /\ tpc[t] = "lock"
    /\ init_lock = Free
    /\ init_lock' = t
    /\ tpc' = [tpc EXCEPT ![t] = "test_done"]
    /\ UNCHANGED <<genVars, init_done, default_rtld, real, cur, calls, dlopens, dlsyms, crashed>>

\* the test replaced by one that always initialises
InitNeededAlways(done) == TRUE

\* if (!init_done)
InitNeeded(done) == ~done

TestDone(t) ==
    /\ ~crashed
    /\ tpc[t] = "test_done"
    /\ tpc' = [tpc EXCEPT ![t] = IF InitNeeded(init_done) THEN "dlopen" ELSE "unlock"]
    /\ UNCHANGED <<genVars, init_done, default_rtld, init_lock, real, cur, calls, dlopens, dlsyms, crashed>>

\* default_rtld = dlopen("libbpf.so", RTLD_LOCAL): a handle, or NULL on failure
Dlopen(t) ==
    /\ ~crashed
    /\ tpc[t] = "dlopen"
    /\ \E h \in {Null, Handle} : default_rtld' = h
    /\ dlopens' = dlopens + 1
    /\ tpc' = [tpc EXCEPT ![t] = "set_done"]
    /\ UNCHANGED <<genVars, init_done, init_lock, real, cur, calls, dlsyms, crashed>>

\* init_done = true
SetDone(t) ==
    /\ ~crashed
    /\ tpc[t] = "set_done"
    /\ init_done' = TRUE
    /\ tpc' = [tpc EXCEPT ![t] = "unlock"]
    /\ UNCHANGED <<genVars, default_rtld, init_lock, real, cur, calls, dlopens, dlsyms, crashed>>

\* pthread_mutex_unlock(&init_lock), init_dl returns
Unlock(t) ==
    /\ ~crashed
    /\ tpc[t] = "unlock"
    /\ init_lock' = Free
    /\ tpc' = [tpc EXCEPT ![t] = "test_real"]
    /\ UNCHANGED <<genVars, init_done, default_rtld, real, cur, calls, dlopens, dlsyms, crashed>>

\* the test replaced by one that always resolves
NeedResolveAlways(ptr) == TRUE

\* if (!real_<name>)
NeedResolve(ptr) == ptr = Null

TestReal(t) ==
    /\ ~crashed
    /\ tpc[t] = "test_real"
    /\ tpc' = [tpc EXCEPT ![t] = IF NeedResolve(real[cur[t]]) THEN "dlsym" ELSE "invoke"]
    /\ UNCHANGED <<genVars, init_done, default_rtld, init_lock, real, cur, calls, dlopens, dlsyms, crashed>>

\* real_<name> = dlsym(default_rtld, "<name>"): the address, or NULL
Dlsym(t) ==
    /\ ~crashed
    /\ tpc[t] = "dlsym"
    /\ \E r \in {Null, Addr(cur[t])} : real' = [real EXCEPT ![cur[t]] = r]
    /\ dlsyms' = [dlsyms EXCEPT ![cur[t]] = @ + 1]
    /\ tpc' = [tpc EXCEPT ![t] = "invoke"]
    /\ UNCHANGED <<genVars, init_done, default_rtld, init_lock, cur, calls, dlopens, crashed>>

\* real_<name>(...) through a resolved pointer, and the wrapper returns
Invoke(t) ==
    /\ ~crashed
    /\ tpc[t] = "invoke"
    /\ real[cur[t]] # Null
    /\ tpc' = [tpc EXCEPT ![t] = "idle"]
    /\ UNCHANGED <<genVars, init_done, default_rtld, init_lock, real, cur, calls, dlopens, dlsyms, crashed>>

\* real_<name>(...) through a null pointer: undefined, the process is killed
\* or the call comes back
InvokeNull(t) ==
    /\ ~crashed
    /\ tpc[t] = "invoke"
    /\ real[cur[t]] = Null
    /\ \/ crashed' = TRUE /\ UNCHANGED tpc
       \/ tpc' = [tpc EXCEPT ![t] = "idle"] /\ UNCHANGED crashed
    /\ UNCHANGED <<genVars, init_done, default_rtld, init_lock, real, cur, calls, dlopens, dlsyms>>

RuntimeNext ==
    \E t \in Threads :
        \/ \E w \in Wrappers : Call(t, w)
        \/ Lock(t)
        \/ TestDone(t)
        \/ Dlopen(t)
        \/ SetDone(t)
        \/ Unlock(t)
        \/ TestReal(t)
        \/ Dlsym(t)
        \/ Invoke(t)
        \/ InvokeNull(t)

RuntimeSpec == RuntimeInit /\ [][RuntimeNext]_vars

\* ------------------------------------------------------------------------
\* Properties of the generated runtime
\* ------------------------------------------------------------------------

\* positions of a thread after init_dl has returned
AfterInit == {"test_real", "dlsym", "invoke"}

\* C4: dlopen is executed at most once, only by the thread that holds
\* init_lock, and a thread that is back from init_dl finds init_done set and
\* the handle assigned.
C4_InitOnce ==
    /\ dlopens <= 1
    /\ \A t \in Threads :
          /\ tpc[t] \in {"test_done", "dlopen", "set_done", "unlock"} => init_lock = t
          /\ tpc[t] \in AfterInit => (init_done /\ dlopens = 1)
    /\ init_done => dlopens = 1

\* two threads made their first calls together and both are back from init_dl
C4_Witness ==
    /\ calls = 2
    /\ dlopens = 1
    /\ \A t \in {1, 2} : tpc[t] = "test_real"

\* C5 as stated: dlsym for real_<name> is executed at most once.
C5_ResolvedOnce == \A w \in Wrappers : dlsyms[w] <= 1

\* C5 amended: a call looks the symbol up at most once, and only when it
\* found real_<name> null; a call that finds the pointer set performs no
\* lookup, and only a lookup writes the pointer.
C5_ResolveOnlyWhenNull ==
    [][/\ \A t \in Threads :
             (tpc[t] = "test_real" /\ tpc'[t] = "dlsym") => real[cur[t]] = Null
       /\ \A w \in Wrappers :
             (real'[w] # real[w] \/ dlsyms'[w] # dlsyms[w]) =>
                 /\ dlsyms'[w] = dlsyms[w] + 1
                 /\ \E t \in Threads :
                        tpc[t] = "dlsym" /\ cur[t] = w /\ tpc'[t] = "invoke"]_vars

\* a wrapper was called again after its pointer had been resolved, and the
\* second call went on to the real function without another lookup
C5_Witness ==
    \E t \in Threads :
        /\ calls >= 2
        /\ tpc[t] = "invoke"
        /\ real[cur[t]] # Null
        /\ \A w \in Wrappers : dlsyms[w] = IF w = cur[t] THEN 1 ELSE 0
        /\ \A u \in Threads \ {t} : tpc[u] = "idle"

\* ------------------------------------------------------------------------
\* Properties of the generator
\* ------------------------------------------------------------------------

\* sub occurs somewhere in text
Contains(text, sub) ==
    \E k \in 0..(Len(text) - Len(sub)) : SubSeq(text, k + 1, k + Len(sub)) = sub

\* the lines accumulated in a text handed to ExportedFunction
LinesOf(text) == SplitOn(Slice(text, 0, -1), "\n")

\* the line about to be read ends a declaration
Terminating ==
    /\ pc = "scan"
    /\ i <= Len(header)
    /\ start \/ HasMarker(header[i])
    /\ HasTerminator(header[i])

\* the accumulated text of the declaration that line ends
Accumulated == func_def \o header[i] \o NL

\* C1: a terminated declaration is discarded when its accumulated text
\* contains at least one exception substring (at any position), and is
\* handed on as a raw declaration when it contains none.
C1_ExactContainment ==
    [][Terminating =>
          IF \E k \in 1..Len(exceptions) : Contains(Accumulated, exceptions[k])
          THEN raws' = raws
          ELSE raws' = Append(raws, [text |-> Accumulated, line |-> i])]_vars

NoParentheses(text) == ~Contains(text, LParen) \/ ~Contains(text, RParen)

\* C2: a raw declaration without '(' or without ')' produces no
\* ExportedFunction, hence no pointer declaration and no wrapper.
C2_MalformedRejected ==
    \A k \in 1..Len(raws) :
        NoParentheses(raws[k].text) =>
            /\ \A m \in 1..Len(defs) : defs[m].func_def # raws[k].text
            /\ \A m \in 1..Len(output) :
                   output[m].template \notin {"PREAMBLE", "INIT"} =>
                       output[m].func_name # FuncName(TokensOf(raws[k].text))

\* C3: a parse failure never aborts the run, and when the run ends every
\* accepted declaration that parses has its pointer declaration and its
\* wrapper in the output.
C3_FailuresIsolated ==
    /\ pc # "crashed"
    /\ pc = "done" =>
          \A k \in 1..Len(raws) :
              ~Raises(raws[k].text) =>
                  /\ \E m \in 1..Len(output) :
                         output[m] = dump_declaration(ExportedFunction(raws[k].text))
                  /\ \E m \in 1..Len(output) :
                         output[m] = dump_wrapper(ExportedFunction(raws[k].text))

\* the first '(' of the text is immediately followed by ')'
EmptyParameterList(text) ==
    /\ Contains(text, LParen \o RParen)
    /\ Find(text, LParen \o RParen) = Find(text, LParen)

\* C6: a declaration with nothing between '(' and ')' is parsed into an
\* ExportedFunction with no call arguments and an empty parameter list.
C6_EmptyParameterList ==
    \A k \in 1..Len(raws) :
        EmptyParameterList(raws[k].text) =>
            \E m \in 1..Len(defs) :
                /\ defs[m].func_def = raws[k].text
                /\ defs[m].func_args = <<>>
                /\ defs[m].res = <<>>
                /\ defs[m].processed_args = <<>>

\* C7: for a declaration  LIBBPF_API RET NAME(P1, ..., Pn);  with n >= 1 the
\* name is NAME, the return type is RET's tokens joined by single spaces, the
\* parameter list is the text between the parentheses, and the i-th call
\* argument is the identifier of Pi without its pointer markers.
C7_SignatureFields ==
    \A m \in 1..Len(defs) : \A d \in DeclForms :
        defs[m].func_def = DeclLine(d) \o NL =>
            /\ defs[m].func_name = d.name
            /\ defs[m].func_return = Join(d.ret, SP)
            /\ defs[m].func_args = ParamListText(d)
            /\ defs[m].res = [k \in 1..Len(d.params) |-> d.params[k].id]

\* a declaration with two parameters, one of them a pointer, has been parsed
C7_Witness ==
    \E m \in 1..Len(defs) : \E d \in DeclForms :
        /\ defs[m].func_def = DeclLine(d) \o NL
        /\ Len(d.params) = 2
        /\ \E k \in 1..2 : d.params[k].stars > 0
        /\ d.ret = <<W_T, W_star>>

\* C8: a wrapper whose parameter list is the single token void forwards a
\* call with no arguments.
C8_VoidParameterList ==
    \A m \in 1..Len(output) :
        (/\ output[m].template \in {"INVOKE_VOID_TEMPLATE", "INVOKE_NON_VOID_TEMPLATE"}
         /\ Split(output[m].func_args) = <<W_void>>)
            => output[m].processed_args = <<>>

\* C9: the output is the preamble, the init helper, the pointer
\* declarations and then the wrappers; the k-th pointer declaration and the
\* k-th wrapper are those of the k-th accepted declaration in header order,
\* repeated names included.
C9_OutputOrder ==
    LET n == Len(raws) IN
    /\ \A a, b \in 1..n : a < b => raws[a].line < raws[b].line
    /\ Len(output) <= 2 + 2 * n
    /\ pc = "done" => Len(output) = 2 + 2 * n
    /\ \A k \in 1..Len(output) :
          /\ k = 1 => output[k] = Fixed("PREAMBLE")
          /\ k = 2 => output[k] = Fixed("INIT")
          /\ (k > 2 /\ k <= 2 + n) =>
                output[k] = dump_declaration(ExportedFunction(raws[k - 2].text))
          /\ k > 2 + n =>
                output[k] = dump_wrapper(ExportedFunction(raws[k - 2 - n].text))

\* three declarations were emitted, the first and the third the same, the
\* second another one
C9_Witness ==
    /\ pc = "done"
    /\ Len(output) = 8
    /\ raws[1].text = raws[3].text
    /\ raws[1].text # raws[2].text

\* C10: every raw declaration has exactly one line with the marker, its
\* first, and exactly one line with the terminator, its last.
C10_OneMarkerOneTerminator ==
    \A k \in 1..Len(raws) :
        LET lines == LinesOf(raws[k].text) IN
        /\ HasMarker(lines[1])
        /\ Cardinality({m \in 1..Len(lines) : HasMarker(lines[m])}) = 1
        /\ HasTerminator(Last(lines))
        /\ Cardinality({m \in 1..Len(lines) : HasTerminator(lines[m])}) = 1

====
